---- MODULE Spec2Model ----
(***************************************************************************)
(* A model of the preference-data collector: the flat-file stores of       *)
(* src/app.py (account table users.json, one ledger file per identity in   *)
(* user_data/, the question catalog questions.csv), the operations on them *)
(* and the catalog loader of src/preference.py.                            *)
(*                                                                         *)
(* Files are modelled by their content at the level the code reads them:   *)
(* a JSON file is the value json.load returns (or a truncated text that    *)
(* json.load rejects), a CSV file is the list of rows csv.reader yields.   *)
(* A Python exception is a value of the "exc" field of a call's result.    *)
(* Identities are file-name stems, so that the path                        *)
(* user_data/<username>_data.json of one identity is the file of no other. *)
(***************************************************************************)
EXTENDS Integers, Sequences, FiniteSets, TLC

\* ------------------------------------------------------------------ bounds
\* Question ordinals submitted are 0..MaxOrd.
MaxOrd == 2
\* Submission timestamps (seconds) are 0..MaxTime.
MaxTime == 1
\* A question source holds at most MaxRows lines after its header line.
MaxRows == 2

\* ------------------------------------------------------- program constants
\* The two options of the radio group, and the ends of the confidence slider.
MinConfidence == 1
MaxConfidence == 5

VARIABLES
    users_file,     \* users.json: [exists, table], table a list of accounts
    data_files,     \* user_data/<u>_data.json for each identity u
    ret,            \* the call made last and what it returned
    latest,         \* per identity: the most recent submission of each ordinal
    call,           \* a save_response call in progress, when its steps are taken apart
    frontend,       \* the program that runs: "web" (app.py), "desktop" (preference.py)
    questions_file, \* its question source: [dir, kind, rows]
    session,        \* per browser session: its st.session_state
    desktop         \* the desktop program: its window, its fields, its data file

vars == <<users_file, data_files, ret, latest, call, frontend, questions_file,
          session, desktop>>

Usernames == {"admin", "u1", "u2"}
Ordinals == 0..MaxOrd
Times == 0..MaxTime
Options == {1, 2}

NoCall == [op |-> "none"]
Idle == [pc |-> "idle"]
\* No browser session is open; the desktop program is not running.
NoSessions == <<>>
NoDesktop == [running |-> FALSE]

\* A question source that is not there, in a directory that is.
AbsentSource == [dir |-> TRUE, kind |-> "absent", rows |-> <<>>]

\* --------------------------------------------------------------- sequences
Range(s) == {s[i] : i \in DOMAIN s}

RECURSIVE InsertByQuestionId(_, _)
\* x goes after every element whose key is <= its own: the sort is stable.
InsertByQuestionId(s, x) ==
    IF s = <<>> THEN <<x>>
    ELSE IF Head(s).question_id <= x.question_id
         THEN <<Head(s)>> \o InsertByQuestionId(Tail(s), x)
         ELSE <<x>> \o s

RECURSIVE SortByQuestionId(_)
\* list.sort(key=lambda x: x["question_id"]): a stable insertion sort.
SortByQuestionId(s) ==
    IF s = <<>> THEN <<>>
    ELSE InsertByQuestionId(SortByQuestionId(SubSeq(s, 1, Len(s) - 1)), s[Len(s)])

\* ------------------------------------------------------------ ledger files
AbsentFile == [exists |-> FALSE, whole |-> TRUE, recs |-> <<>>]
\* A file holding the complete JSON text of the list recs.
WholeFile(recs) == [exists |-> TRUE, whole |-> TRUE, recs |-> recs]
\* A file holding only a prefix of a JSON text: the records written so far.
PartialFile(recs) == [exists |-> TRUE, whole |-> FALSE, recs |-> recs]

load_responses(username) ==
    LET f == data_files[username] IN
    IF ~f.exists THEN [exc |-> "none", value |-> <<>>]
    ELSE IF ~f.whole THEN [exc |-> "JSONDecodeError", value |-> <<>>]
    ELSE [exc |-> "none", value |-> f.recs]

\* The first index whose record has the ordinal, 0 for None.
ExistingIndex(responses, question_id) ==
    LET hits == {i \in DOMAIN responses : responses[i].question_id = question_id}
    IN IF hits = {} THEN 0 ELSE CHOOSE i \in hits : \A j \in hits : i <= j

UpsertAppendOnly(responses, response) == Append(responses, response)

UpsertNoSort(responses, response) ==
    LET i == ExistingIndex(responses, response.question_id) IN
    IF i # 0 THEN [responses EXCEPT ![i] = response]
    ELSE Append(responses, response)

\* The list save_response writes and returns.
Upsert(responses, response) ==
    LET i == ExistingIndex(responses, response.question_id) IN
    IF i # 0 THEN [responses EXCEPT ![i] = response]
    ELSE SortByQuestionId(Append(responses, response))

\* The ghost: the latest submission of each ordinal.
Submit(set, response) ==
    {x \in set : x.question_id # response.question_id} \cup {response}

save_response(username, response) ==
    LET loaded == load_responses(username) IN
    IF loaded.exc # "none"
    THEN /\ ret' = [op |-> "save_response", user |-> username, arg |-> response,
                    exc |-> loaded.exc, existing |-> 0, value |-> <<>>]
         /\ UNCHANGED <<users_file, data_files, latest, call, frontend, questions_file, session, desktop>>
    ELSE LET responses == Upsert(loaded.value, response) IN
         /\ data_files' = [data_files EXCEPT ![username] = WholeFile(responses)]
         /\ latest' = [latest EXCEPT ![username] = Submit(@, response)]
         /\ ret' = [op |-> "save_response", user |-> username, arg |-> response,
                    exc |-> "none", value |-> responses,
                    existing |-> ExistingIndex(loaded.value, response.question_id)]
         /\ UNCHANGED <<users_file, call, frontend, questions_file, session, desktop>>

\* -------------------------------------------------- the ledger on its own
\* The questions of a catalog of n questions, each with texts of its own.
SentenceText == <<"s0", "s1", "s2", "s3", "s4", "s5">>
Option1Text == <<"a0", "a1", "a2", "a3", "a4", "a5">>
Option2Text == <<"b0", "b1", "b2", "b3", "b4", "b5">>

Questions(n) ==
    [i \in 1..n |-> [sentence |-> SentenceText[i], option1 |-> Option1Text[i],
                     option2 |-> Option2Text[i]]]

\* questions[i] of a Python list, i from 0; a negative i counts from the end.
InRange(list, i) == -Len(list) <= i /\ i < Len(list)
Item(list, i) == IF i >= 0 THEN list[i + 1] ELSE list[Len(list) + i + 1]

\* The response the Save Answer form builds from the radio's value.
Response(username, questions, current_index, selected_option, confidence, now) ==
    LET question == Item(questions, current_index) IN
    [question_id |-> current_index,
     user |-> username,
     sentence |-> question.sentence,
     selected_option |-> IF selected_option = question.option1 THEN 1 ELSE 2,
     selected_text |-> selected_option,
     confidence |-> confidence,
     timestamp |-> now]

\* The records submitted for an identity: answers to a catalog of MaxOrd + 1
\* questions, by either option, at either end of the slider, at the first and
\* at the last second.
Submissions(username) ==
    LET questions == Questions(MaxOrd + 1) IN
    {Response(username, questions, q,
              IF o = 1 THEN Item(questions, q).option1
                       ELSE Item(questions, q).option2, c, t) :
        q \in Ordinals, o \in Options,
        c \in {MinConfidence, MaxConfidence}, t \in {0, MaxTime}}

LedgerUser == "u1"

InitLedger ==
    /\ users_file = [exists |-> FALSE, table |-> <<>>]
    /\ data_files = [u \in Usernames |-> AbsentFile]
    /\ latest = [u \in Usernames |-> {}]
    /\ ret = NoCall
    /\ call = Idle
    /\ frontend = "web"
    /\ questions_file = AbsentSource
    /\ session = NoSessions
    /\ desktop = NoDesktop

NextLedger == \E r \in Submissions(LedgerUser) : save_response(LedgerUser, r)

SpecLedger == InitLedger /\ [][NextLedger]_vars

Saved == ret.op = "save_response" /\ ret.exc = "none"

OneRecordPerOrdinal(recs) ==
    \A i, j \in DOMAIN recs : recs[i].question_id = recs[j].question_id => i = j

\* The ledger holds the latest submission of every ordinal submitted, once each.
LedgerIsLatest ==
    \A u \in Usernames :
        LET recs == data_files[u].recs IN
        /\ data_files[u].whole
        /\ data_files[u].exists = (latest[u] # {})
        /\ Range(recs) = latest[u]
        /\ Len(recs) = Cardinality(latest[u])
        /\ OneRecordPerOrdinal(recs)

\* A save of an ordinal the ledger holds replaces that record and no other.
ResubmitInPlace ==
    (ret'.op = "save_response" /\ ret'.exc = "none") =>
        LET old == data_files[ret'.user].recs
            new == data_files'[ret'.user].recs
            q == ret'.arg.question_id
        IN  (\E i \in DOMAIN old : old[i].question_id = q) =>
                /\ Len(new) = Len(old)
                /\ \A i \in DOMAIN old :
                       IF old[i].question_id = q THEN new[i] = ret'.arg
                       ELSE new[i] = old[i]

\* C1: from an absent ledger file, after any sequence of save_response calls
\* the persisted ledger holds exactly one record per ordinal submitted, the
\* most recent submission of it; a resubmission leaves the length and every
\* other record as they were.
C1_UpsertKeepsLatest == [](LedgerIsLatest) /\ [][ResubmitInPlace]_vars

\* A resubmission that changed the record of an ordinal among others.
C1_Witness ==
    /\ Saved /\ ret.existing # 0
    /\ Len(ret.value) = MaxOrd + 1
    /\ ret.arg.confidence = MaxConfidence /\ ret.arg.selected_option = 2
    /\ \E i \in DOMAIN ret.value : ret.value[i].confidence = MinConfidence

StrictlyAscending(recs) ==
    \A i, j \in DOMAIN recs : i < j => recs[i].question_id < recs[j].question_id

\* C2: from an absent ledger file, after every save_response call, whatever
\* the order of the ordinals submitted, the persisted ledger and the returned
\* list are sorted strictly ascending by question ordinal.
C2_LedgerSorted ==
    /\ \A u \in Usernames : StrictlyAscending(data_files[u].recs)
    /\ Saved => /\ StrictlyAscending(ret.value)
                /\ data_files[ret.user] = WholeFile(ret.value)

\* A new ordinal was appended below the ones already held, and sorted down.
C2_Witness ==
    /\ Saved /\ ret.existing = 0
    /\ Len(ret.value) = MaxOrd + 1
    /\ ret.value[1] = ret.arg

\* ------------------------------------- save_response, one statement at a time
\* The same call taken apart at the points where the process can be killed:
\* after the load and the upsert in memory, after open(data_file, "w") has
\* truncated the file, after each part of the text json.dump has written, and
\* at the close that ends the with block.
\* The submissions of the runs that take the call apart.
FewSubmissions(username) ==
    {r \in Submissions(username) :
        r.confidence = MinConfidence /\ r.timestamp = 0}

\* json.load rejects the file: the call raises before it writes anything.
save_load_raises(username, response) ==
    /\ call.pc = "idle"
    /\ load_responses(username).exc # "none"
    /\ ret' = [op |-> "save_response", user |-> username, arg |-> response,
               exc |-> load_responses(username).exc, existing |-> 0,
               value |-> <<>>]
    /\ UNCHANGED <<users_file, data_files, latest, call, frontend, questions_file, session, desktop>>

save_load(username, response) ==
    /\ call.pc = "idle"
    /\ load_responses(username).exc = "none"
    /\ call' = [pc |-> "loaded", user |-> username, arg |-> response,
                before |-> data_files[username],
                responses |-> Upsert(load_responses(username).value, response),
                written |-> 0]
    /\ UNCHANGED <<users_file, data_files, ret, latest, frontend, questions_file, session, desktop>>

save_open ==
    /\ call.pc = "loaded"
    /\ data_files' = [data_files EXCEPT ![call.user] = PartialFile(<<>>)]
    /\ call' = [call EXCEPT !.pc = "open"]
    /\ UNCHANGED <<users_file, ret, latest, frontend, questions_file, session, desktop>>

save_dump ==
    /\ call.pc = "open"
    /\ call.written < Len(call.responses)
    /\ data_files' = [data_files EXCEPT ![call.user] =
                          PartialFile(SubSeq(call.responses, 1, call.written + 1))]
    /\ call' = [call EXCEPT !.written = @ + 1]
    /\ UNCHANGED <<users_file, ret, latest, frontend, questions_file, session, desktop>>

save_close ==
    /\ call.pc = "open"
    /\ call.written = Len(call.responses)
    /\ data_files' = [data_files EXCEPT ![call.user] = WholeFile(call.responses)]
    /\ latest' = [latest EXCEPT ![call.user] = Submit(@, call.arg)]
    /\ ret' = [op |-> "save_response", user |-> call.user, arg |-> call.arg,
               exc |-> "none", value |-> call.responses,
               existing |-> ExistingIndex(call.before.recs, call.arg.question_id)]
    /\ call' = Idle
    /\ UNCHANGED <<users_file, frontend, questions_file, session, desktop>>

\* The process is killed inside the call: the file stays as the call left it.
crash ==
    /\ call.pc \in {"loaded", "open"}
    /\ call' = [call EXCEPT !.pc = "crashed"]
    /\ UNCHANGED <<users_file, data_files, ret, latest, frontend, questions_file, session, desktop>>

\* The application is started again.
restart ==
    /\ call.pc = "crashed"
    /\ call' = Idle
    /\ UNCHANGED <<users_file, data_files, ret, latest, frontend, questions_file, session, desktop>>

NextCrash ==
    \/ \E r \in FewSubmissions(LedgerUser) : save_load(LedgerUser, r)
    \/ \E r \in FewSubmissions(LedgerUser) : save_load_raises(LedgerUser, r)
    \/ save_open
    \/ save_dump
    \/ save_close
    \/ crash
    \/ restart

SpecCrash == InitLedger /\ [][NextCrash]_vars

\* C3: a crash at any point of save_response, from the load to the end of the
\* write, leaves the persisted ledger equal to the complete previous state or
\* to the complete new state, never a truncated or partly written file.
C3_CrashLeavesOldOrNew ==
    call.pc = "crashed" =>
        \/ data_files[call.user] = call.before
        \/ data_files[call.user] = WholeFile(call.responses)

\* ----------------------------------------------------------- account table
\* users.json is a JSON object; a dict keeps its keys in insertion order, so
\* the table is the list of its items [name, password, created_at].
Passwords == {"pw1", "pw2"}

Names(users) == {users[i].name : i \in DOMAIN users}

\* users[username], for a username in users.
Entry(users, username) ==
    users[CHOOSE i \in DOMAIN users : users[i].name = username]

\* users[username] = {...}: a key already there keeps its place.
SetItem(users, username, password, created_at) ==
    LET item == [name |-> username, password |-> password,
                 created_at |-> created_at]
    IN  IF username \in Names(users)
        THEN [i \in DOMAIN users |->
                 IF users[i].name = username THEN item ELSE users[i]]
        ELSE Append(users, item)

\* del users[username]
DelItem(users, username) ==
    SelectSeq(users, LAMBDA a : a.name # username)

load_users ==
    IF users_file.exists THEN users_file.table ELSE <<>>

save_users(users) == [exists |-> TRUE, table |-> users]

\* hashlib.sha256(password.encode()).hexdigest(): the digest is a value of its
\* own kind that is equal for equal passwords only.
hash_password(password) == <<"sha256", password>>

RegisterOverwrites(users, username, password, now) ==
    [ok |-> TRUE, message |-> "Registration successful",
     users |-> SetItem(users, username, hash_password(password), now)]

\* What register_user returns and the table it leaves.
Register(users, username, password, now) ==
    IF username \in Names(users)
    THEN [ok |-> FALSE, message |-> "Username already exists", users |-> users]
    ELSE [ok |-> TRUE, message |-> "Registration successful",
          users |-> SetItem(users, username, hash_password(password), now)]

\* register_user when datetime.now() is now.
register_user_at(username, password, now) ==
    LET r == Register(load_users, username, password, now) IN
    /\ ret' = [op |-> "register_user", user |-> username,
               password |-> password, ok |-> r.ok, message |-> r.message]
    /\ users_file' = IF r.ok THEN save_users(r.users) ELSE users_file
    /\ UNCHANGED <<data_files, latest, call, frontend, questions_file, session, desktop>>

register_user(username, password) ==
    \E now \in Times : register_user_at(username, password, now)

AuthenticateAnyPassword(users, username, password) ==
    IF username \notin Names(users)
    THEN [ok |-> FALSE, message |-> "User not found"]
    ELSE [ok |-> TRUE, message |-> "Authentication successful"]

\* What authenticate returns.
Authenticate(users, username, password) ==
    IF username \notin Names(users)
    THEN [ok |-> FALSE, message |-> "User not found"]
    ELSE IF Entry(users, username).password # hash_password(password)
    THEN [ok |-> FALSE, message |-> "Incorrect password"]
    ELSE [ok |-> TRUE, message |-> "Authentication successful"]

authenticate(username, password) ==
    LET r == Authenticate(load_users, username, password) IN
    /\ ret' = [op |-> "authenticate", user |-> username,
               password |-> password, ok |-> r.ok, message |-> r.message]
    /\ UNCHANGED <<users_file, data_files, latest, call, frontend, questions_file, session, desktop>>

DeleteKeepsLedger(files, username) == files

\* The ledger files after the os.remove of delete_user.
RemoveDataFile(files, username) ==
    IF files[username].exists
    THEN [files EXCEPT ![username] = AbsentFile]
    ELSE files

delete_user(username) ==
    LET users == load_users IN
    /\ data_files' = RemoveDataFile(data_files, username)
    /\ users_file' = IF username \in Names(users)
                     THEN save_users(DelItem(users, username))
                     ELSE users_file
    /\ latest' = [latest EXCEPT ![username] = {}]
    /\ ret' = [op |-> "delete_user", user |-> username, ok |-> TRUE,
               had_file |-> data_files[username].exists,
               had_account |-> username \in Names(users)]
    /\ UNCHANGED <<call, frontend, questions_file, session, desktop>>

\* ------------------------------------------- the account store and ledgers
AccountUsers == {"u1", "u2"}

AccountSubmissions(username) ==
    {r \in FewSubmissions(username) :
        r.selected_option = 1 /\ r.question_id <= 1}

NextAccounts ==
    \/ \E u \in AccountUsers, p \in Passwords : register_user(u, p)
    \/ \E u \in AccountUsers, p \in Passwords : authenticate(u, p)
    \/ \E u \in AccountUsers : delete_user(u)
    \/ \E u \in AccountUsers : \E r \in AccountSubmissions(u) : save_response(u, r)

SpecAccounts == InitLedger /\ [][NextAccounts]_vars

\* C4 as it was stated: of two register_user calls in a row for one identity,
\* whatever the account table, the first succeeds and the second is rejected.
C4_AnyTableFirstSucceeds ==
    [][(/\ ret.op = "register_user" /\ ret'.op = "register_user"
        /\ ret'.user = ret.user /\ ret' # ret)
          => (ret.ok /\ ~ret'.ok)]_vars

RegisterStep ==
    ret'.op = "register_user" =>
        LET users == load_users
            known == ret'.user \in Names(users)
        IN  /\ ret'.ok = ~known
            /\ known => /\ ret'.message = "Username already exists"
                        /\ users_file' = users_file
            /\ ~known =>
                  /\ users_file'.exists
                  /\ Len(users_file'.table) = Len(users) + 1
                  /\ SubSeq(users_file'.table, 1, Len(users)) = users
                  /\ LET new == users_file'.table[Len(users) + 1] IN
                         /\ new.name = ret'.user
                         /\ new.password = hash_password(ret'.password)
            /\ (ret.op = "register_user" /\ ret.user = ret'.user /\ ret.ok)
                  => ~ret'.ok
            /\ data_files' = data_files

\* C4: register_user succeeds exactly when the identity is not in the account
\* table, so of two calls in a row for an identity the table does not hold
\* the first succeeds and the second is rejected as already existing; a
\* rejected registration leaves the table, and so the stored hash and
\* creation time, unchanged.
C4_RegisterOnceOnly == [][RegisterStep]_vars

\* A rejected registration that offered another password than the stored one.
C4_Witness ==
    /\ ret.op = "register_user" /\ ~ret.ok
    /\ Entry(load_users, ret.user).password # hash_password(ret.password)
    /\ Len(load_users) = 2

AuthenticateResult ==
    ret.op = "authenticate" =>
        LET users == load_users
            known == ret.user \in Names(users)
        IN  /\ ret.ok = (/\ known
                         /\ Entry(users, ret.user).password
                                = hash_password(ret.password))
            /\ ~known => ret.message = "User not found"
            /\ (known /\ ~ret.ok) => ret.message = "Incorrect password"
            /\ ret.ok => ret.message = "Authentication successful"

AuthenticateStep ==
    ret'.op = "authenticate" =>
        /\ users_file' = users_file
        /\ data_files' = data_files

\* C5: authenticate succeeds exactly when the identity is in the account table
\* and the hash of the password given equals the stored hash; it answers
\* "User not found" for an identity not in the table and "Incorrect password"
\* for a registered one whose hash differs; it never changes the table.
C5_Authenticate == [](AuthenticateResult) /\ [][AuthenticateStep]_vars

\* A registered identity was refused for its password.
C5_Witness ==
    /\ ret.op = "authenticate" /\ ~ret.ok
    /\ ret.user \in Names(load_users)

Others(users, username) == SelectSeq(users, LAMBDA a : a.name # username)

DeleteResult ==
    (ret.op = "delete_user" /\ ret.ok) =>
        /\ ~data_files[ret.user].exists
        /\ ret.user \notin Names(load_users)
        /\ load_responses(ret.user) = [exc |-> "none", value |-> <<>>]
        /\ \A p \in Passwords :
               Authenticate(load_users, ret.user, p)
                   = [ok |-> FALSE, message |-> "User not found"]

DeleteStep ==
    (ret'.op = "delete_user" /\ ret'.ok) =>
        /\ \A v \in Usernames \ {ret'.user} : data_files'[v] = data_files[v]
        /\ Others(users_file'.table, ret'.user) = Others(load_users, ret'.user)

\* C6: after a successful delete_user the identity's ledger file and account
\* are gone, load_responses gives the empty list and authenticate answers
\* not-found for every password; the accounts and ledgers of the other
\* identities are as they were.
C6_DeleteRemovesBoth == [](DeleteResult) /\ [][DeleteStep]_vars

\* An identity with an account and a ledger was deleted beside another one.
C6_Witness ==
    /\ ret.op = "delete_user" /\ ret.ok
    /\ ret.had_file /\ ret.had_account
    /\ \E v \in Names(load_users) : data_files[v].exists

\* -------------------------------------------------------- question catalog
\* A CSV file is the list of rows csv.reader yields, a row the list of its
\* cells, a blank line the empty row. kind "denied" is a file that is there
\* and cannot be opened for reading; dir tells whether the directory of the
\* path exists ("questions.csv" lies in the working directory, which does;
\* "./data/questions.csv" of the desktop program lies in ./data).
CsvFile(rows) == [dir |-> TRUE, kind |-> "csv", rows |-> rows]

\* DictReader's restval, the value of a column the row is too short for.
None == "<None>"

\* row[key] of the dict DictReader builds: dict(zip(fieldnames, row)) keeps
\* the last of the columns of one name; a missing key is a KeyError.
HasKey(fieldnames, key) == \E i \in DOMAIN fieldnames : fieldnames[i] = key

GetKey(fieldnames, row, key) ==
    LET i == CHOOSE i \in DOMAIN fieldnames :
                 /\ fieldnames[i] = key
                 /\ \A j \in DOMAIN fieldnames : fieldnames[j] = key => j <= i
    IN  IF i <= Len(row) THEN row[i] ELSE None

\* The rows DictReader yields as dicts: those after the first, blank ones
\* skipped.
DataRows(rows) ==
    IF rows = <<>> THEN <<>>
    ELSE SelectSeq(Tail(rows), LAMBDA row : row # <<>>)

QuestionOfRow(fieldnames, row) ==
    [sentence |-> GetKey(fieldnames, row, "translated"),
     option1 |-> GetKey(fieldnames, row, "text"),
     option2 |-> GetKey(fieldnames, row, "multi")]

SampleQuestions ==
    << [sentence |-> "The movie was really enjoyable and entertaining.",
        option1 |-> "I found the film to be quite delightful.",
        option2 |-> "The cinematic experience gave me great pleasure."],
       [sentence |-> "The company announced record profits this quarter.",
        option1 |-> "The firm reported unprecedented earnings for this period.",
        option2 |-> "The business revealed they had their most successful quarter yet."],
       [sentence |-> "The researchers discovered a new species of frog.",
        option1 |-> "Scientists identified a previously unknown amphibian of the frog family.",
        option2 |-> "The research team found a type of frog that was not known before."] >>

Fieldnames == <<"text", "multi", "translated">>

RowOfQuestionSentenceFirst(q) == <<q.sentence, q.option1, q.option2>>

\* The row DictWriter writes for {"text": option1, "multi": option2,
\* "translated": sentence}: the values in the order of the field names.
RowOfQuestion(q) == <<q.option1, q.option2, q.sentence>>

\* The sample CSV file: the header, then a row per question.
SampleCsv(questions) ==
    <<Fieldnames>> \o [i \in DOMAIN questions |-> RowOfQuestion(questions[i])]

\* load_questions on the source src: the exception that leaves it ("none" when
\* it returns), the questions it returns and the source it leaves.
LoadCatalog(src) ==
    LET data == DataRows(src.rows)
        fallback ==
            \* the except FileNotFoundError block
            IF ~src.dir
            THEN [exc |-> "FileNotFoundError", questions |-> <<>>, file |-> src]
            ELSE [exc |-> "none", questions |-> SampleQuestions,
                  file |-> CsvFile(SampleCsv(SampleQuestions))]
    IN
    IF src.kind = "absent" THEN fallback
    ELSE IF src.kind = "denied"
    THEN [exc |-> "PermissionError", questions |-> <<>>, file |-> src]
    ELSE IF data = <<>> THEN fallback
    ELSE IF \E key \in {"translated", "text", "multi"} : ~HasKey(src.rows[1], key)
    THEN [exc |-> "KeyError", questions |-> <<>>, file |-> src]
    ELSE [exc |-> "none",
          questions |-> [i \in DOMAIN data |-> QuestionOfRow(src.rows[1], data[i])],
          file |-> src]

\* load_questions() of app.py.
load_questions ==
    /\ frontend = "web"
    /\ LET r == LoadCatalog(questions_file) IN
       /\ questions_file' = r.file
       /\ ret' = [op |-> "load_questions", exc |-> r.exc,
                  questions |-> r.questions, was |-> questions_file]
    /\ UNCHANGED <<users_file, data_files, latest, call, frontend, session, desktop>>

\* PreferenceCollector.load_questions() of preference.py, called once by
\* __init__ with self.questions empty.
PreferenceCollector_load_questions ==
    /\ frontend = "desktop"
    /\ LET r == LoadCatalog(questions_file) IN
       /\ questions_file' = r.file
       /\ ret' = [op |-> "load_questions", exc |-> r.exc,
                  questions |-> r.questions, was |-> questions_file]
    /\ UNCHANGED <<users_file, data_files, latest, call, frontend, session, desktop>>

\* The question sources of the runs: the header lines and the data lines a
\* file is made of.
Headers ==
    { Fieldnames,
      <<"translated", "text", "multi">>,
      <<"text", "multi">>,
      <<>> }

Lines ==
    { <<"a1", "b1", "s1">>, <<"a2", "b2", "s2">>, <<"a1">>, <<>> }

RECURSIVE SeqsUpTo(_, _)
\* The sequences over S of length at most n.
SeqsUpTo(S, n) ==
    IF n = 0 THEN {<<>>}
    ELSE LET shorter == SeqsUpTo(S, n - 1) IN
         shorter \cup {Append(s, x) : s \in shorter, x \in S}

Sources ==
    {AbsentSource, [dir |-> TRUE, kind |-> "denied", rows |-> <<>>], CsvFile(<<>>)}
    \cup {CsvFile(<<h>> \o body) : h \in Headers, body \in SeqsUpTo(Lines, MaxRows)}

InitCatalog ==
    /\ users_file = [exists |-> FALSE, table |-> <<>>]
    /\ data_files = [u \in Usernames |-> AbsentFile]
    /\ latest = [u \in Usernames |-> {}]
    /\ ret = NoCall
    /\ call = Idle
    /\ session = NoSessions
    /\ desktop = NoDesktop
    /\ frontend \in {"web", "desktop"}
    /\ \/ questions_file \in Sources
       \/ /\ frontend = "desktop"
          /\ questions_file = [dir |-> FALSE, kind |-> "absent", rows |-> <<>>]

NextCatalog ==
    \/ load_questions
    \/ PreferenceCollector_load_questions

SpecCatalog == InitCatalog /\ [][NextCatalog]_vars

Loaded == ret.op = "load_questions"

\* C7: against an absent question source load_questions returns exactly the 3
\* built-in sample questions, in their order, and writes them to the source,
\* so that a second load from the source now there returns the same 3
\* questions, sentence and options, and leaves the source as it is.
C7_SeedThenLoadAgain ==
    (Loaded /\ ret.was = AbsentSource) =>
        /\ ret.exc = "none"
        /\ ret.questions = SampleQuestions
        /\ Len(ret.questions) = 3
        /\ questions_file.kind = "csv"
        /\ LoadCatalog(questions_file) =
               [exc |-> "none", questions |-> SampleQuestions,
                file |-> questions_file]

\* The desktop program has loaded from an absent source.
C7_Witness ==
    /\ Loaded /\ ret.was = AbsentSource
    /\ frontend = "desktop"
    /\ Len(questions_file.rows) = 4

\* C8: the catalog loader never raises, whatever the state of the question
\* source, and falls back to the samples when the source is absent,
\* unreadable or yields no rows.
C8_LoaderNeverRaises ==
    Loaded =>
        /\ ret.exc = "none"
        /\ (ret.was.kind # "csv" \/ DataRows(ret.was.rows) = <<>>)
               => ret.questions = SampleQuestions

\* ------------------------------------------------------------------ exports
\* A CSV file written by an export: its header and, a dict each, its rows;
\* or the single row "No data available".
ExportFieldnames ==
    <<"question_id", "user", "sentence", "option1", "option2",
      "selected_option", "selected_text", "confidence", "timestamp">>

ExportFile(rows) == [placeholder |-> FALSE, header |-> ExportFieldnames, rows |-> rows]
NoDataFile == [placeholder |-> TRUE, header |-> <<>>, rows |-> <<>>]

\* The row both exports build from a response and its question.
Row(username, question, response) ==
    [question_id |-> response.question_id,
     user |-> username,
     sentence |-> question.sentence,
     option1 |-> question.option1,
     option2 |-> question.option2,
     selected_option |-> response.selected_option,
     selected_text |-> response.selected_text,
     confidence |-> response.confidence,
     timestamp |-> response.timestamp]

RECURSIVE WriteRows(_, _, _)
\* The loop of export_results: the rows written before the exception, if any.
WriteRows(username, questions, responses) ==
    IF responses = <<>> THEN [exc |-> "none", rows |-> <<>>]
    ELSE LET response == Head(responses) IN
         IF ~InRange(questions, response.question_id)
         THEN [exc |-> "IndexError", rows |-> <<>>]
         ELSE LET rest == WriteRows(username, questions, Tail(responses)) IN
              [exc |-> rest.exc,
               rows |-> <<Row(username, Item(questions, response.question_id),
                              response)>> \o rest.rows]

RECURSIVE WriteRowsInRange(_, _, _)
WriteRowsInRange(username, questions, responses) ==
    IF responses = <<>> THEN [exc |-> "none", rows |-> <<>>]
    ELSE LET response == Head(responses)
             rest == WriteRowsInRange(username, questions, Tail(responses))
         IN  IF ~InRange(questions, response.question_id) THEN rest
             ELSE [exc |-> rest.exc,
                   rows |-> <<Row(username, Item(questions, response.question_id),
                                  response)>> \o rest.rows]

ExportResultsSkipping(username, questions, responses) ==
    LET w == WriteRowsInRange(username, questions, responses) IN
    [ok |-> TRUE, exc |-> w.exc, file |-> ExportFile(w.rows)]

\* What export_results returns and the file it leaves.
ExportResults(username, questions, responses) ==
    LET w == WriteRows(username, questions, responses) IN
    [ok |-> w.exc = "none", exc |-> w.exc, file |-> ExportFile(w.rows)]

\* The "Export My Results" button of summary_page: the page loads the catalog
\* and the ledger, then calls export_results on them.
export_my_results(username) ==
    LET lq == LoadCatalog(questions_file)
        lr == load_responses(username)
    IN  /\ questions_file' = lq.file
        /\ ret' =
             IF lq.exc # "none"
             THEN [op |-> "summary_page", user |-> username, exc |-> lq.exc]
             ELSE IF lr.exc # "none"
             THEN [op |-> "summary_page", user |-> username, exc |-> lr.exc]
             ELSE LET r == ExportResults(username, lq.questions, lr.value) IN
                  [op |-> "export_results", user |-> username,
                   questions |-> lq.questions, responses |-> lr.value,
                   ok |-> r.ok, exc |-> r.exc, file |-> r.file]
        /\ UNCHANGED <<users_file, data_files, latest, call, frontend, session, desktop>>

RECURSIVE Entries(_, _, _)
\* The inner loop of export_all_data over one identity's responses: an
\* exception ends the loop and keeps the entries appended before it.
Entries(username, questions, responses) ==
    IF responses = <<>> THEN <<>>
    ELSE LET response == Head(responses) IN
         IF response.question_id < Len(questions)
         THEN IF ~InRange(questions, response.question_id) THEN <<>>
              ELSE <<Row(username, Item(questions, response.question_id),
                         response)>>
                   \o Entries(username, questions, Tail(responses))
         ELSE Entries(username, questions, Tail(responses))

RECURSIVE AllData(_, _, _)
\* The outer loop over the account table, with the ledger files as they are.
AllData(users, questions, files) ==
    IF users = <<>> THEN <<>>
    ELSE LET username == Head(users).name
             f == files[username]
             mine == IF f.exists /\ ~f.whole THEN <<>>
                     ELSE Entries(username, questions,
                                  IF f.exists THEN f.recs ELSE <<>>)
         IN  mine \o AllData(Tail(users), questions, files)

RECURSIVE AllDataUnguarded(_, _, _)
\* The same loop without the inner try: the first ledger that cannot be
\* loaded ends the export.
AllDataUnguarded(users, questions, files) ==
    IF users = <<>> THEN [exc |-> "none", rows |-> <<>>]
    ELSE LET username == Head(users).name
             f == files[username]
             rest == AllDataUnguarded(Tail(users), questions, files)
         IN  IF f.exists /\ ~f.whole
             THEN [exc |-> "JSONDecodeError", rows |-> <<>>]
             ELSE [exc |-> rest.exc,
                   rows |-> Entries(username, questions,
                                    IF f.exists THEN f.recs ELSE <<>>)
                            \o rest.rows]

ExportAllAborts(users, lq, files) ==
    LET d == AllDataUnguarded(users, lq.questions, files) IN
    IF lq.exc # "none" THEN [ok |-> FALSE, exc |-> lq.exc, file |-> NoDataFile]
    ELSE IF d.exc # "none" THEN [ok |-> FALSE, exc |-> d.exc, file |-> NoDataFile]
    ELSE [ok |-> TRUE, exc |-> "none",
          file |-> IF d.rows # <<>> THEN ExportFile(d.rows) ELSE NoDataFile]

\* What export_all_data returns and the file it leaves, lq being what its
\* load_questions() call gave.
ExportAll(users, lq, files) ==
    IF lq.exc # "none" THEN [ok |-> FALSE, exc |-> lq.exc, file |-> NoDataFile]
    ELSE LET all_data == AllData(users, lq.questions, files) IN
         [ok |-> TRUE, exc |-> "none",
          file |-> IF all_data # <<>> THEN ExportFile(all_data) ELSE NoDataFile]

export_all_data ==
    LET lq == LoadCatalog(questions_file)
        r == ExportAll(load_users, lq, data_files)
    IN  /\ questions_file' = lq.file
        /\ ret' = [op |-> "export_all_data", ok |-> r.ok, exc |-> r.exc,
                   catalog |-> lq, file |-> r.file]
        /\ UNCHANGED <<users_file, data_files, latest, call, frontend, session, desktop>>

\* questions.csv is put in place, or taken away, by whoever runs the study.
replace_questions(src) ==
    /\ questions_file' = src
    /\ ret' = [op |-> "replace_questions"]
    /\ UNCHANGED <<users_file, data_files, latest, call, frontend, session, desktop>>

\* save_response killed between open(data_file, "w"), which truncates the
\* file, and the close that flushes the buffered text to it.
killed_in_save(username, response) ==
    /\ load_responses(username).exc = "none"
    /\ data_files' = [data_files EXCEPT ![username] = PartialFile(<<>>)]
    /\ ret' = [op |-> "killed"]
    /\ UNCHANGED <<users_file, latest, call, frontend, questions_file, session, desktop>>

\* Answers to the first and to the last question, by the second option.
ExportSubmissions(username) ==
    {r \in FewSubmissions(username) :
        r.selected_option = 2 /\ r.question_id \in {0, MaxOrd}}

ExportSources ==
    {AbsentSource, CsvFile(<<<<"text", "multi">>, <<"a1", "b1">>>>)}
    \cup {CsvFile(SampleCsv(Questions(n))) : n \in {1, MaxOrd, MaxOrd + 1}}

NextExport ==
    \/ \E u \in AccountUsers : register_user_at(u, "pw1", 0)
    \/ \E u \in AccountUsers : \E r \in ExportSubmissions(u) : save_response(u, r)
    \/ \E u \in AccountUsers : \E r \in ExportSubmissions(u) : killed_in_save(u, r)
    \/ \E src \in ExportSources : replace_questions(src)
    \/ \E u \in AccountUsers : export_my_results(u)
    \/ export_all_data

SpecExport == InitLedger /\ [][NextExport]_vars

AllInCatalog(questions, responses) ==
    \A i \in DOMAIN responses :
        responses[i].question_id \in 0..(Len(questions) - 1)

\* The row for a response is the response joined with its question.
Joined(row, username, questions, response) ==
    LET question == questions[response.question_id + 1] IN
    /\ row.question_id = response.question_id
    /\ row.user = username
    /\ row.sentence = question.sentence
    /\ row.option1 = question.option1
    /\ row.option2 = question.option2
    /\ row.selected_option = response.selected_option
    /\ row.selected_text = response.selected_text
    /\ row.confidence = response.confidence
    /\ row.timestamp = response.timestamp

\* C9: export_results succeeds with one row per ledger record, in ledger
\* order, each the record joined with the question at its ordinal, when every
\* ordinal is within the catalog; it returns failure when some ordinal is not.
C9_ExportOne ==
    ret.op = "export_results" =>
        IF AllInCatalog(ret.questions, ret.responses)
        THEN /\ ret.ok
             /\ ret.file.header = ExportFieldnames
             /\ Len(ret.file.rows) = Len(ret.responses)
             /\ \A i \in DOMAIN ret.responses :
                    Joined(ret.file.rows[i], ret.user, ret.questions,
                           ret.responses[i])
        ELSE ~ret.ok

\* An export failed on its second record, the first being within the catalog.
C9_Witness ==
    /\ ret.op = "export_results" /\ ~ret.ok
    /\ Len(ret.responses) = 2
    /\ ret.responses[1].question_id < Len(ret.questions)

\* The identities of the table whose ledger loads.
Loadable == {u \in Names(load_users) : load_responses(u).exc = "none"}

\* The rows the aggregate export owes: every record below the catalog size of
\* every loadable identity, joined with its question.
RowsOwed(questions) ==
    UNION { { Row(u, questions[r.question_id + 1], r) :
                r \in {x \in Range(load_responses(u).value) :
                          x.question_id < Len(questions)} } :
            u \in Loadable }

\* C10: export_all_data succeeds whenever the account table and the catalog
\* can be read: an identity whose ledger cannot be loaded is skipped, a record
\* whose ordinal is not below the catalog size is skipped, and the output
\* holds exactly the joined rows of the records that remain, or the single
\* placeholder row when none does.
C10_ExportAll ==
    (ret.op = "export_all_data" /\ ret.catalog.exc = "none") =>
        LET owed == RowsOwed(ret.catalog.questions) IN
        /\ ret.ok
        /\ IF owed = {} THEN ret.file = NoDataFile
           ELSE /\ ~ret.file.placeholder
                /\ ret.file.header = ExportFieldnames
                /\ Range(ret.file.rows) = owed
                /\ Len(ret.file.rows) = Cardinality(owed)

\* An export that skipped an identity with a truncated ledger and a record
\* beyond the catalog, and wrote the row of another record.
C10_Witness ==
    /\ ret.op = "export_all_data" /\ ret.ok
    /\ \E u \in Names(load_users) : load_responses(u).exc # "none"
    /\ \E v \in Loadable :
          /\ \E r \in Range(load_responses(v).value) :
                r.question_id >= Len(ret.catalog.questions)
          /\ \E r \in Range(load_responses(v).value) :
                r.question_id < Len(ret.catalog.questions)
    /\ Len(ret.file.rows) = 1

\* ------------------------------------------------------------- statistics
\* A float the program computes as (num / den) * 100, kept as the exact
\* fraction; the literal 0 is no hundredths of one.
Percent(num, den) == [num |-> 100 * num, den |-> den]
Zero == [num |-> 0, den |-> 1]
SameNumber(a, b) == a.num * b.den = b.num * a.den

\* question_count of get_statistics: the rows csv.reader yields, a blank line
\* being the row [], less one for the header; 0 for a missing file.
QuestionCount(src) ==
    IF src.kind = "absent" THEN [exc |-> "none", value |-> 0]
    ELSE IF src.kind = "denied" THEN [exc |-> "PermissionError", value |-> 0]
    ELSE [exc |-> "none", value |-> Len(src.rows) - 1]

\* One pass of the loop over the accounts: what it leaves in user_progress
\* and what it adds to total_responses and to completed_users.
UserProgress(account, question_count) ==
    LET loaded == load_responses(account.name) IN
    IF loaded.exc # "none"
    THEN [responses |-> 0, progress |-> Zero, created_at |-> account.created_at,
          counted |-> 0, completed |-> 0]
    ELSE [responses |-> Len(loaded.value),
          progress |-> IF question_count > 0
                       THEN Percent(Len(loaded.value), question_count)
                       ELSE Zero,
          created_at |-> account.created_at,
          counted |-> Len(loaded.value),
          completed |-> IF Len(loaded.value) >= question_count THEN 1 ELSE 0]

RECURSIVE Sum(_, _)
\* f[x] added up over the set S.
Sum(f, S) ==
    IF S = {} THEN 0
    ELSE LET x == CHOOSE x \in S : TRUE IN f[x] + Sum(f, S \ {x})

CompletionRateAlways(total_users, question_count, completed_users) ==
    IF total_users > 0 THEN Percent(completed_users, total_users) ELSE Zero

CompletionRate(total_users, question_count, completed_users) ==
    IF total_users > 0 /\ question_count > 0
    THEN Percent(completed_users, total_users)
    ELSE Zero

\* The dictionary get_statistics returns, and completed_users beside it.
Statistics(users, question_count) ==
    LET passes == [i \in DOMAIN users |-> UserProgress(users[i], question_count)]
        total_users == Len(users)
        completed_users == Sum([i \in DOMAIN users |-> passes[i].completed],
                               DOMAIN users)
    IN  [total_users |-> total_users,
         total_responses |-> Sum([i \in DOMAIN users |-> passes[i].counted],
                                 DOMAIN users),
         question_count |-> question_count,
         completion_rate |-> CompletionRate(total_users, question_count,
                                            completed_users),
         user_progress |->
             [u \in Names(users) |->
                 LET i == CHOOSE i \in DOMAIN users : users[i].name = u IN
                 [responses |-> passes[i].responses,
                  progress |-> passes[i].progress,
                  created_at |-> passes[i].created_at]],
         completed_users |-> completed_users]

get_statistics ==
    LET count == QuestionCount(questions_file) IN
    /\ ret' = IF count.exc # "none"
              THEN [op |-> "get_statistics", exc |-> count.exc]
              ELSE [op |-> "get_statistics", exc |-> "none",
                    stats |-> Statistics(load_users, count.value)]
    /\ UNCHANGED <<users_file, data_files, latest, call, frontend,
                   questions_file, session, desktop>>

\* The question sources of the statistics runs: no file, a file of no bytes,
\* a header alone, catalogs of one and of MaxOrd questions, and a catalog of
\* one question followed by a blank line.
StatsSources ==
    {AbsentSource, CsvFile(<<>>), CsvFile(<<Fieldnames>>),
     CsvFile(SampleCsv(Questions(1))), CsvFile(SampleCsv(Questions(MaxOrd))),
     CsvFile(SampleCsv(Questions(1)) \o <<<<>>>>)}

\* Answers to the first and to the second question, by the second option.
StatsSubmissions(username) ==
    {r \in FewSubmissions(username) :
        r.selected_option = 2 /\ r.question_id \in {0, 1}}

NextStats ==
    \/ \E u \in AccountUsers : register_user_at(u, "pw1", 0)
    \/ \E u \in AccountUsers : \E r \in StatsSubmissions(u) : save_response(u, r)
    \/ \E u \in AccountUsers : \E r \in StatsSubmissions(u) : killed_in_save(u, r)
    \/ \E src \in StatsSources : replace_questions(src)
    \/ load_questions
    \/ get_statistics

SpecStats == InitLedger /\ [][NextStats]_vars

Counted == ret.op = "get_statistics" /\ ret.exc = "none"

LedgerLength(username) == Len(load_responses(username).value)

\* C11: for every identity in the account table get_statistics reports
\* responses equal to the length of the identity's persisted ledger and
\* progress equal to 100 * len(ledger) / catalogSize, progress 0 when
\* catalogSize is 0; total_responses is the sum of the ledger lengths over the
\* identities and total_users the number of accounts. catalogSize is the
\* question_count the call reports; a ledger that cannot be read has no length
\* and is left out.
C11_ProgressPerIdentity ==
    Counted =>
        LET stats == ret.stats
            users == load_users
        IN  /\ stats.total_users = Len(users)
            /\ DOMAIN stats.user_progress = Names(users)
            /\ stats.total_responses
                   = Sum([u \in Loadable |-> LedgerLength(u)], Loadable)
            /\ \A u \in Loadable :
                   /\ stats.user_progress[u].responses = LedgerLength(u)
                   /\ SameNumber(stats.user_progress[u].progress,
                                 IF stats.question_count = 0 THEN Zero
                                 ELSE Percent(LedgerLength(u),
                                              stats.question_count))

\* The identities get_statistics reports at least question_count responses of.
ReportedComplete(stats) ==
    {u \in DOMAIN stats.user_progress :
        stats.user_progress[u].responses >= stats.question_count}

\* C12 as it was stated: an identity counts as completed exactly when its
\* response count is at least the catalog size, and completion_rate is
\* 100 * completed / total, 0 only when the completed count or the account
\* count is 0, a catalog of size 0 with an account included.
C12_ZeroOnlyWhenNoneCompleted ==
    Counted =>
        LET stats == ret.stats
            completed == Cardinality(ReportedComplete(stats))
        IN  /\ stats.completed_users = completed
            /\ SameNumber(stats.completion_rate,
                          IF stats.total_users = 0 THEN Zero
                          ELSE Percent(completed, stats.total_users))

\* C12: get_statistics counts an identity whose ledger can be read as
\* completed exactly when its response count is at least question_count, and
\* an identity whose ledger cannot be read never; completion_rate is
\* 100 * completed / total when the account count and question_count are both
\* positive and 0 otherwise, so it is 0 for a question_count of 0 although
\* every identity with a readable ledger then counts as completed.
C12_CompletionRate ==
    Counted =>
        LET stats == ret.stats
            completed ==
                Cardinality({u \in Loadable :
                                LedgerLength(u) >= stats.question_count})
        IN  /\ stats.completed_users = completed
            /\ SameNumber(stats.completion_rate,
                          IF stats.total_users > 0 /\ stats.question_count > 0
                          THEN Percent(completed, stats.total_users)
                          ELSE Zero)

\* Two accounts, both counted as completed against a header alone, and a
\* completion rate of 0.
C12_Witness ==
    /\ Counted
    /\ ret.stats.question_count = 0
    /\ ret.stats.total_users = 2
    /\ ret.stats.completed_users = 2
    /\ ret.stats.total_responses > 0
    /\ ret.stats.completion_rate = Zero

\* C18: for every state of the question source that load_questions can read,
\* the question_count of get_statistics is the number of questions
\* load_questions returns for that state, and is never negative.
C18_CountIsCatalogSize ==
    Counted =>
        LET catalog == LoadCatalog(questions_file) IN
        /\ ret.stats.question_count >= 0
        /\ catalog.exc = "none" =>
               ret.stats.question_count = Len(catalog.questions)

\* ------------------------------------------------------- the web front-end
\* One run of the script per click: main() shows the page of the session's
\* state, the handler of the button clicked runs, and st.rerun() shows the
\* page again.
SessionIds == {1, 2}

\* st.session_state of a session that has run main() once. "question_index"
\* not being in it is index_set = FALSE.
Fresh ==
    [logged_in |-> FALSE, username |-> "", is_admin |-> FALSE,
     index_set |-> FALSE, question_index |-> 0, show_summary |-> FALSE]

\* The question the page opens at when the session has no index yet.
InitialIndex(responses, questions) ==
    IF Len(responses) < Len(questions) THEN Len(responses) ELSE 0

\* The head of question_page: both loads, then the index if it is not set.
\* An exception of a load ends the run with the state as it is.
QuestionPageHead(state, src, files) ==
    LET lq == LoadCatalog(src)
        f == files[state.username]
    IN  IF lq.exc # "none" \/ (f.exists /\ ~f.whole) \/ state.index_set
        THEN state
        ELSE [state EXCEPT !.index_set = TRUE,
                           !.question_index = InitialIndex(f.recs, lq.questions)]

\* main(): the page it shows and what showing it does to the session.
Main(state, src, files) ==
    IF ~state.logged_in THEN Fresh
    ELSE IF state.is_admin THEN state
    ELSE QuestionPageHead(state, src, files)

\* The source after a run of main(): question_page seeds a missing one.
MainSource(state, src) ==
    IF state.logged_in /\ ~state.is_admin THEN LoadCatalog(src).file ELSE src

\* The session s is shown question_page, and the page has not raised.
QuestionPage(s) ==
    /\ session[s].logged_in /\ ~session[s].is_admin /\ session[s].index_set
    /\ LoadCatalog(questions_file).exc = "none"
    /\ load_responses(session[s].username).exc = "none"

AdminPage(s) ==
    /\ session[s].logged_in /\ session[s].is_admin
    /\ QuestionCount(questions_file).exc = "none"

IsAdmin(username) == username = "admin"

\* The Login button with both fields filled in.
click_login(s, username, password) ==
    LET r == Authenticate(load_users, username, password)
        state == [session[s] EXCEPT !.logged_in = TRUE, !.username = username,
                                    !.is_admin = IsAdmin(username)]
    IN  /\ ~session[s].logged_in
        /\ session' = IF r.ok
                      THEN [session EXCEPT
                               ![s] = Main(state, questions_file, data_files)]
                      ELSE session
        /\ questions_file' = IF r.ok THEN MainSource(state, questions_file)
                             ELSE questions_file
        /\ ret' = [op |-> "Login", by |-> s, ok |-> r.ok]
        /\ UNCHANGED <<users_file, data_files, latest, call, frontend, desktop>>

\* The Register button with the fields filled in and the password confirmed.
click_register(s, username, password, now) ==
    LET r == Register(load_users, username, password, now) IN
    /\ ~session[s].logged_in
    /\ users_file' = IF r.ok THEN save_users(r.users) ELSE users_file
    /\ ret' = [op |-> "Register", by |-> s, ok |-> r.ok]
    /\ UNCHANGED <<data_files, latest, call, frontend, questions_file,
                   session, desktop>>

\* A sidebar button of question_page that leaves the session in state.
Sidebar(s, button, state) ==
    /\ QuestionPage(s)
    /\ session' = [session EXCEPT ![s] = state]
    /\ questions_file' = LoadCatalog(questions_file).file
    /\ ret' = [op |-> button, by |-> s]
    /\ UNCHANGED <<users_file, data_files, latest, call, frontend, desktop>>

click_first(s) ==
    Sidebar(s, "First", [session[s] EXCEPT !.question_index = 0])

PreviousIndex(question_index) ==
    IF question_index > 0 THEN question_index - 1 ELSE question_index

click_previous(s) ==
    Sidebar(s, "Previous",
            [session[s] EXCEPT !.question_index = PreviousIndex(@)])

NextIndexUnguarded(question_index, questions) == question_index + 1

NextIndex(question_index, questions) ==
    IF question_index < Len(questions) - 1 THEN question_index + 1
    ELSE question_index

click_next(s) ==
    Sidebar(s, "Next",
            [session[s] EXCEPT !.question_index =
                NextIndex(@, LoadCatalog(questions_file).questions)])

click_last(s) ==
    Sidebar(s, "Last",
            [session[s] EXCEPT !.question_index =
                Len(LoadCatalog(questions_file).questions) - 1])

\* The numbers the "Jump to question" input lets through.
JumpTo(questions) == 1..Len(questions)

click_go(s, jump_to) ==
    /\ jump_to \in JumpTo(LoadCatalog(questions_file).questions)
    /\ Sidebar(s, "Go", [session[s] EXCEPT !.question_index = jump_to - 1])

click_view_summary(s) ==
    Sidebar(s, "View Progress Summary",
            [session[s] EXCEPT !.show_summary = TRUE])

click_logout(s) == Sidebar(s, "Logout", Fresh)

\* The buttons of summary_page.
click_goto(s, q_idx) ==
    /\ session[s].show_summary
    /\ q_idx \in 0..(Len(LoadCatalog(questions_file).questions) - 1)
    /\ Sidebar(s, "goto", [session[s] EXCEPT !.question_index = q_idx,
                                             !.show_summary = FALSE])

click_back(s) ==
    /\ session[s].show_summary
    /\ Sidebar(s, "Back to Questions",
               [session[s] EXCEPT !.show_summary = FALSE])

\* The browser page is loaded anew: a session state of its own.
reload(s) ==
    /\ session[s] # Fresh
    /\ session' = [session EXCEPT ![s] = Fresh]
    /\ ret' = [op |-> "reload", by |-> s]
    /\ UNCHANGED <<users_file, data_files, latest, call, frontend,
                   questions_file, desktop>>

\* The values the radio can have when the form is submitted: an option of the
\* question, or None while the question has no record and none was clicked.
RadioValues(question, responses, current_index) ==
    {question.option1, question.option2}
    \cup (IF ExistingIndex(responses, current_index) = 0 THEN {None} ELSE {})

\* The index after Save Answer.
AfterSave(current_index, questions) ==
    IF current_index < Len(questions) - 1 THEN current_index + 1
    ELSE current_index

\* The Save Answer button of the form.
click_save(s, selected_option, confidence, now) ==
    LET state == session[s]
        username == state.username
        questions == LoadCatalog(questions_file).questions
        responses == load_responses(username).value
        current_index == state.question_index
    IN  /\ QuestionPage(s)
        /\ ~state.show_summary
        /\ current_index < Len(questions)
        /\ InRange(questions, current_index)
        /\ selected_option
               \in RadioValues(Item(questions, current_index), responses,
                               current_index)
        /\ LET response == Response(username, questions, current_index,
                                    selected_option, confidence, now)
               updated_responses == Upsert(responses, response)
           IN  /\ data_files' = [data_files EXCEPT
                                    ![username] = WholeFile(updated_responses)]
               /\ latest' = [latest EXCEPT ![username] = Submit(@, response)]
               /\ ret' = [op |-> "Save Answer", by |-> s,
                          chose |-> selected_option # None]
        /\ session' = [session EXCEPT
                          ![s].question_index = AfterSave(@, questions)]
        /\ questions_file' = LoadCatalog(questions_file).file
        /\ UNCHANGED <<users_file, call, frontend, desktop>>

\* The users the "Select user to delete" box offers.
DeleteOptionsAll(user_progress) == DOMAIN user_progress

DeleteOptions(user_progress) == DOMAIN user_progress \ {"admin"}

\* The Delete Selected User button of admin_page.
click_delete(s, delete_username) ==
    LET stats == Statistics(load_users, QuestionCount(questions_file).value)
        users == load_users
    IN  /\ AdminPage(s)
        /\ delete_username \in DeleteOptions(stats.user_progress)
        /\ data_files' = RemoveDataFile(data_files, delete_username)
        /\ users_file' = IF delete_username \in Names(users)
                         THEN save_users(DelItem(users, delete_username))
                         ELSE users_file
        /\ latest' = [latest EXCEPT ![delete_username] = {}]
        /\ ret' = [op |-> "Delete Selected User", by |-> s,
                   user |-> delete_username, ok |-> TRUE]
        /\ UNCHANGED <<call, frontend, questions_file, session, desktop>>

\* The Export All Data button of admin_page.
click_export_all(s) ==
    LET lq == LoadCatalog(questions_file)
        r == ExportAll(load_users, lq, data_files)
    IN  /\ AdminPage(s)
        /\ questions_file' = lq.file
        /\ ret' = [op |-> "Export All Data", by |-> s, ok |-> r.ok]
        /\ UNCHANGED <<users_file, data_files, latest, call, frontend,
                       session, desktop>>

\* One participant at one browser, who moves the slider to its top, and a
\* catalog that stays as it is once it is there.
Browser == 1

WebSources ==
    {AbsentSource} \cup {CsvFile(SampleCsv(Questions(n))) : n \in {1, MaxOrd + 1}}

\* The texts a radio of some question of some catalog can show.
OptionTexts ==
    Range(Option1Text) \cup Range(Option2Text)
    \cup {q.option1 : q \in Range(SampleQuestions)}
    \cup {q.option2 : q \in Range(SampleQuestions)}

InitWeb ==
    /\ users_file = [exists |-> FALSE, table |-> <<>>]
    /\ data_files = [u \in Usernames |-> AbsentFile]
    /\ latest = [u \in Usernames |-> {}]
    /\ ret = NoCall
    /\ call = Idle
    /\ frontend = "web"
    /\ questions_file \in WebSources
    /\ session = [s \in SessionIds |-> Fresh]
    /\ desktop = NoDesktop

NextWeb ==
    \/ click_register(Browser, "u1", "pw1", 0)
    \/ \E p \in Passwords : click_login(Browser, "u1", p)
    \/ click_first(Browser)
    \/ click_previous(Browser)
    \/ click_next(Browser)
    \/ click_last(Browser)
    \/ \E jump_to \in 1..(MaxOrd + 1) : click_go(Browser, jump_to)
    \/ click_view_summary(Browser)
    \/ \E q_idx \in Ordinals : click_goto(Browser, q_idx)
    \/ click_back(Browser)
    \/ click_logout(Browser)
    \/ \E o \in {None} \cup OptionTexts :
           click_save(Browser, o, MaxConfidence, 0)
    \/ reload(Browser)

SpecWeb == InitWeb /\ [][NextWeb]_vars

\* The catalog the pages of the run show.
Catalog == LoadCatalog(questions_file).questions

\* A record that answers its question by one of the two options.
ForcedChoice(questions, record) ==
    /\ record.selected_option \in Options
    /\ record.question_id \in 0..(Len(questions) - 1)
    /\ record.selected_text
           = (IF record.selected_option = 1
              THEN Item(questions, record.question_id).option1
              ELSE Item(questions, record.question_id).option2)
    /\ record.confidence \in MinConfidence..MaxConfidence

UnselectedSaveIsRefused ==
    (ret'.op = "Save Answer" /\ ~ret'.chose) =>
        /\ data_files' = data_files
        /\ session'[ret'.by].question_index = session[ret'.by].question_index

\* C13: every record the web front-end persists is a forced choice: its
\* option is 1 or 2, its chosen text is the text of that option in the catalog
\* question of its ordinal, its confidence is an integer from 1 to 5; a Save
\* Answer with no option selected persists no record and changes neither the
\* ledger nor the question index.
C13_ForcedChoiceOnly ==
    /\ [](\A u \in Usernames :
             \A i \in DOMAIN data_files[u].recs :
                 ForcedChoice(Catalog, data_files[u].recs[i]))
    /\ [][UnselectedSaveIsRefused]_vars

\* The session shows a question of the catalog, and every ledger holds records
\* of questions of the catalog only, no more than there are questions.
IndexInCatalog ==
    /\ \A s \in SessionIds :
           (session[s].logged_in /\ ~session[s].is_admin /\ session[s].index_set)
               => session[s].question_index \in 0..(Len(Catalog) - 1)
    /\ \A u \in Usernames :
           /\ Len(data_files[u].recs) <= Len(Catalog)
           /\ \A i \in DOMAIN data_files[u].recs :
                  data_files[u].recs[i].question_id \in 0..(Len(Catalog) - 1)

NavigationStep ==
    LET s == ret'.by
        old == session[s].question_index
        new == session'[s].question_index
        last == Len(Catalog) - 1
    IN  /\ ret'.op = "First" => new = 0
        /\ ret'.op = "Last" => new = last
        /\ ret'.op = "Previous" => new = (IF old = 0 THEN 0 ELSE old - 1)
        /\ ret'.op = "Next" => new = (IF old = last THEN last ELSE old + 1)
        /\ ret'.op \in {"Go", "goto"} => new \in 0..last
        /\ ret'.op = "Save Answer" =>
              /\ new = (IF old = last THEN last ELSE old + 1)
              /\ \E i \in DOMAIN data_files'[session[s].username].recs :
                     data_files'[session[s].username].recs[i].question_id = old
        /\ ret'.op \in {"View Progress Summary", "Back to Questions"} =>
              new = old

\* C16: with a catalog of N >= 1 questions that does not change, the question
\* index of a session stays in 0..N-1 under First, Previous, Next, Last, Jump,
\* the summary's go-to buttons and Save Answer; Previous at 0 and Next at N-1
\* leave it as it is, a save advances it by one except at N-1; every record
\* saved has an ordinal in 0..N-1 and no ledger holds more than N records.
C16_IndexStaysInCatalog == [](IndexInCatalog) /\ [][NavigationStep]_vars

\* The last question of a catalog of MaxOrd + 1 was saved with every other
\* question answered, and the index stayed on it.
C16_Witness ==
    /\ ret.op = "Save Answer"
    /\ Len(Catalog) = MaxOrd + 1
    /\ session[ret.by].question_index = MaxOrd
    /\ Len(data_files[session[ret.by].username].recs) = MaxOrd + 1

\* The ordinals of the questions the ledger has no record of.
Unanswered(questions, responses) ==
    {q \in 0..(Len(questions) - 1) :
        \A i \in DOMAIN responses : responses[i].question_id # q}

\* C17: when an identity that still has unanswered questions opens the
\* questionnaire in a session, the question index it starts at is the lowest
\* ordinal with no record, whatever the order the ledger was answered in.
C17_OpensAtFirstUnanswered ==
    (ret.op = "Login" /\ ret.ok /\ QuestionPage(ret.by)) =>
        LET free == Unanswered(Catalog,
                               load_responses(session[ret.by].username).value)
        IN  free # {} =>
                /\ session[ret.by].question_index \in free
                /\ \A q \in free : session[ret.by].question_index <= q

\* ------------------------------------------- the administrator and the rest
\* Two browsers at once, either of which anyone may sit at, the administrator
\* or a participant, and a catalog of one question.
WebUsernames == {"admin", "u1"}

InitAdmin ==
    /\ users_file = [exists |-> FALSE, table |-> <<>>]
    /\ data_files = [u \in Usernames |-> AbsentFile]
    /\ latest = [u \in Usernames |-> {}]
    /\ ret = NoCall
    /\ call = Idle
    /\ frontend = "web"
    /\ questions_file = CsvFile(SampleCsv(Questions(1)))
    /\ session = [s \in SessionIds |-> Fresh]
    /\ desktop = NoDesktop

NextAdmin ==
    \E s \in SessionIds :
        \/ \E u \in WebUsernames : click_register(s, u, "pw1", 0)
        \/ \E u \in WebUsernames, p \in Passwords : click_login(s, u, p)
        \/ click_first(s)
        \/ click_previous(s)
        \/ click_next(s)
        \/ click_last(s)
        \/ click_go(s, 1)
        \/ click_view_summary(s)
        \/ click_goto(s, 0)
        \/ click_back(s)
        \/ click_logout(s)
        \/ \E o \in {None} \cup OptionTexts :
               click_save(s, o, MaxConfidence, 0)
        \/ \E u \in WebUsernames : click_delete(s, u)
        \/ click_export_all(s)
        \/ reload(s)

SpecAdmin == InitAdmin /\ [][NextAdmin]_vars

\* Only a session logged in as "admin" is shown admin_page.
AdminPageIsAdmins ==
    \A s \in SessionIds :
        (session[s].logged_in /\ session[s].is_admin)
            <=> (session[s].logged_in /\ session[s].username = "admin")

AdminStep ==
    /\ ret'.op \in {"Delete Selected User", "Export All Data"} =>
          /\ session[ret'.by].logged_in
          /\ session[ret'.by].username = "admin"
    /\ ret'.op = "Delete Selected User" => ret'.user # "admin"
    /\ "admin" \in Names(load_users) => "admin" \in Names(users_file'.table)
    /\ Names(users_file'.table) # Names(load_users) =>
          ret'.op \in {"Delete Selected User", "Register"}

\* C15: delete_user and the export of all data are called only from a session
\* logged in under the username "admin"; the user such a session deletes is
\* never "admin", so the admin account is never taken out of the account
\* table; a session logged in under another username is never shown the admin
\* page.
C15_AdminOnly == [](AdminPageIsAdmins) /\ [][AdminStep]_vars

\* The administrator deleted a participant who is logged in at the other
\* browser, the admin account being in the table.
C15_Witness ==
    /\ ret.op = "Delete Selected User"
    /\ "admin" \in Names(load_users)
    /\ ret.user \notin Names(load_users)
    /\ \E s \in SessionIds :
          /\ session[s].logged_in /\ ~session[s].is_admin
          /\ session[s].username = ret.user

\* C19: every ledger file there is belongs to an identity of the account
\* table, also after the administrator has deleted the account of an identity
\* whose session is still logged in and goes on to save an answer.
C19_NoLedgerWithoutAccount ==
    \A u \in Usernames : data_files[u].exists => u \in Names(load_users)

\* ----------------------------------- two sessions of one identity that save
\* save_response of each session in its two steps: the load and the upsert in
\* memory, then the write of the whole list. call[s] is the call of session s.
RaceUser == "u1"

\* The list a write puts in the file, were the file read again before it.
WrittenMerged(frame, file) == Upsert(file.recs, frame.arg)

\* The list the write step puts in the file: the one made at the load.
Written(frame, file) == frame.responses

race_load(s, response) ==
    LET loaded == load_responses(RaceUser) IN
    /\ call[s].pc = "idle"
    /\ loaded.exc = "none"
    /\ call' = [call EXCEPT ![s] = [pc |-> "loaded", arg |-> response,
                                    before |-> loaded.value,
                                    responses |-> Upsert(loaded.value, response)]]
    /\ ret' = [op |-> "load_responses", by |-> s]
    /\ UNCHANGED <<users_file, data_files, latest, frontend, questions_file,
                   session, desktop>>

race_write(s) ==
    /\ call[s].pc = "loaded"
    /\ data_files' = [data_files EXCEPT
                         ![RaceUser] = WholeFile(Written(call[s], @))]
    /\ latest' = [latest EXCEPT ![RaceUser] = Submit(@, call[s].arg)]
    /\ call' = [call EXCEPT ![s] = Idle]
    /\ ret' = [op |-> "save_response", by |-> s, arg |-> call[s].arg,
               before |-> call[s].before]
    /\ UNCHANGED <<users_file, frontend, questions_file, session, desktop>>

\* Each session answers a question of its own, by either option.
RaceSubmissions(s) ==
    {r \in FewSubmissions(RaceUser) :
        r.question_id = (IF s = 1 THEN 0 ELSE MaxOrd)}

InitRace ==
    /\ users_file = [exists |-> FALSE, table |-> <<>>]
    /\ data_files = [u \in Usernames |-> AbsentFile]
    /\ latest = [u \in Usernames |-> {}]
    /\ ret = NoCall
    /\ call = [s \in SessionIds |-> Idle]
    /\ frontend = "web"
    /\ questions_file = AbsentSource
    /\ session = NoSessions
    /\ desktop = NoDesktop

NextRace ==
    \E s \in SessionIds :
        \/ \E r \in RaceSubmissions(s) : race_load(s, r)
        \/ race_write(s)

SpecRace == InitRace /\ [][NextRace]_vars

\* C14: when two sessions of one identity interleave the load and the write of
\* save_response for different ordinals, each write puts in the file the list
\* its session made from what it had loaded, whatever was written since, so
\* the ledger is the list of the session that wrote last and the record of the
\* other session can be missing from it.
C14_LastWriteWins ==
    ret.op = "save_response" =>
        data_files[RaceUser] = WholeFile(Upsert(ret.before, ret.arg))

\* Both sessions have written, and the record of the one that wrote first is
\* not in the ledger.
C14_Witness ==
    /\ ret.op = "save_response"
    /\ \A s \in SessionIds : call[s].pc = "idle"
    /\ \E r \in latest[RaceUser] :
          /\ r.question_id # ret.arg.question_id
          /\ \A i \in DOMAIN data_files[RaceUser].recs :
                 data_files[RaceUser].recs[i].question_id # r.question_id

\* ---------------------------------------------------- the desktop front-end
\* The PreferenceCollector object with its window and preference_data.json.
\* screen is what display_current_question left in the window.
DefaultConfidence == 3

Closed(data_file) ==
    [running |-> FALSE, data_file |-> data_file, questions |-> <<>>,
     responses |-> <<>>, current_index |-> 0, screen |-> "none",
     option_var |-> 0, confidence_var |-> DefaultConfidence]

\* display_current_question: the completion screen, or the question with the
\* selection and the slider reset.
DisplayCurrentQuestion(app) ==
    IF app.current_index >= Len(app.questions)
    THEN [app EXCEPT !.screen = "completion"]
    ELSE [app EXCEPT !.screen = "question", !.option_var = 0,
                     !.confidence_var = DefaultConfidence]

\* current_index after load_responses has read the data file.
LoadedIndexZero(responses) == 0

LoadedIndex(responses) == Len(responses)

\* __init__: both loads, then the first display. An exception of a load ends
\* the program before it has a window.
PreferenceCollector_init ==
    LET lq == LoadCatalog(questions_file)
        f == desktop.data_file
        responses == IF f.exists THEN f.recs ELSE <<>>
    IN  /\ ~desktop.running
        /\ questions_file' = lq.file
        /\ desktop' =
               IF lq.exc # "none" \/ (f.exists /\ ~f.whole) THEN desktop
               ELSE DisplayCurrentQuestion(
                        [desktop EXCEPT !.running = TRUE,
                                        !.questions = lq.questions,
                                        !.responses = responses,
                                        !.current_index = LoadedIndex(responses)])
        /\ ret' = [op |-> "PreferenceCollector", accepted |-> FALSE]
        /\ UNCHANGED <<users_file, data_files, latest, call, frontend, session>>

\* A radio button is clicked.
select_option(value) ==
    /\ desktop.running /\ desktop.screen = "question"
    /\ desktop' = [desktop EXCEPT !.option_var = value]
    /\ ret' = [op |-> "Radiobutton", accepted |-> FALSE]
    /\ UNCHANGED <<users_file, data_files, latest, call, frontend,
                   questions_file, session>>

\* The slider is moved; IntVar.get() gives the whole part of its position.
move_scale(value) ==
    /\ desktop.running /\ desktop.screen = "question"
    /\ desktop' = [desktop EXCEPT !.confidence_var = value]
    /\ ret' = [op |-> "Scale", accepted |-> FALSE]
    /\ UNCHANGED <<users_file, data_files, latest, call, frontend,
                   questions_file, session>>

\* The response submit_response builds.
DesktopResponse(app, now) ==
    LET question == Item(app.questions, app.current_index) IN
    [question_id |-> app.current_index,
     sentence |-> question.sentence,
     selected_option |-> app.option_var,
     selected_text |-> IF app.option_var = 1 THEN question.option1
                       ELSE question.option2,
     confidence |-> app.confidence_var,
     timestamp |-> now]

\* The Submit & Next button.
submit_response(now) ==
    /\ desktop.running /\ desktop.screen = "question"
    /\ IF desktop.option_var = 0
       THEN /\ ret' = [op |-> "submit_response", accepted |-> FALSE]
            /\ UNCHANGED desktop
       ELSE LET response == DesktopResponse(desktop, now)
                responses ==
                    IF desktop.current_index < Len(desktop.responses)
                    THEN [desktop.responses EXCEPT
                             ![desktop.current_index + 1] = response]
                    ELSE Append(desktop.responses, response)
            IN  /\ desktop' = DisplayCurrentQuestion(
                       [desktop EXCEPT
                           !.responses = responses,
                           !.data_file = WholeFile(responses),
                           !.current_index = desktop.current_index + 1])
                /\ ret' = [op |-> "submit_response", accepted |-> TRUE]
    /\ UNCHANGED <<users_file, data_files, latest, call, frontend,
                   questions_file, session>>

\* The window is closed and the question answered with OK.
on_closing ==
    /\ desktop.running
    /\ desktop' = Closed(WholeFile(desktop.responses))
    /\ ret' = [op |-> "on_closing", accepted |-> FALSE]
    /\ UNCHANGED <<users_file, data_files, latest, call, frontend,
                   questions_file, session>>

\* The Exit button of the completion screen: root.destroy.
click_exit ==
    /\ desktop.running /\ desktop.screen = "completion"
    /\ desktop' = Closed(desktop.data_file)
    /\ ret' = [op |-> "Exit", accepted |-> FALSE]
    /\ UNCHANGED <<users_file, data_files, latest, call, frontend,
                   questions_file, session>>

InitDesktop ==
    /\ users_file = [exists |-> FALSE, table |-> <<>>]
    /\ data_files = [u \in Usernames |-> AbsentFile]
    /\ latest = [u \in Usernames |-> {}]
    /\ ret = NoCall
    /\ call = Idle
    /\ frontend = "desktop"
    /\ questions_file \in WebSources
    /\ session = NoSessions
    /\ desktop = Closed(AbsentFile)

NextDesktop ==
    \/ PreferenceCollector_init
    \/ \E value \in Options : select_option(value)
    \/ move_scale(MaxConfidence)
    \/ submit_response(0)
    \/ on_closing
    \/ click_exit

SpecDesktop == InitDesktop /\ [][NextDesktop]_vars

DesktopInStep ==
    desktop.running =>
        /\ desktop.current_index = Len(desktop.responses)
        /\ \A i \in DOMAIN desktop.responses :
               desktop.responses[i].question_id = i - 1
        /\ desktop.data_file.whole
        /\ desktop.data_file.recs = desktop.responses
        /\ (desktop.screen = "completion")
               <=> (Len(desktop.responses) = Len(desktop.questions))
        /\ Len(desktop.responses) <= Len(desktop.questions)
        /\ (ret.op = "submit_response" /\ ret.accepted) =>
               desktop.data_file = WholeFile(desktop.responses)

CompletionIsFinal ==
    (desktop.running /\ desktop.screen = "completion"
        /\ (desktop'.running \/ ret'.op = "Exit")) =>
        /\ desktop'.responses = desktop.responses \/ ~desktop'.running
        /\ desktop'.data_file = desktop.data_file

\* C20: in the desktop front-end, from an absent data file, after any sequence
\* of submits the current index is the number of responses recorded, the i-th
\* response has ordinal i (from 0), the data file holds the in-memory list
\* after each accepted submit, and after N accepted submits for a catalog of N
\* questions the completion screen is shown and no response is recorded any
\* more.
C20_DesktopInOrder == [](DesktopInStep) /\ [][CompletionIsFinal]_vars

\* The last question of a catalog of MaxOrd + 1 was submitted by the second
\* option, the first having been answered with the slider at its top.
C20_Witness ==
    /\ ret.op = "submit_response" /\ ret.accepted
    /\ desktop.screen = "completion"
    /\ Len(desktop.responses) = MaxOrd + 1
    /\ desktop.responses[1].confidence = MaxConfidence
    /\ desktop.responses[MaxOrd + 1].selected_option = 2

====
